---- MODULE Spec2Model ----
(***************************************************************************)
(* Model of geolocation-migration-script.py: one run of main().            *)
(* The run validates the hierarchy, opens the fact/destination connection, *)
(* fetches the distinct location tuples, resolves each tuple against the   *)
(* master table over a second connection, creates geo_ref and inserts the  *)
(* resolved rows in one transaction.                                       *)
(***************************************************************************)
EXTENDS Integers, Sequences, FiniteSets, TLC

\* ---------------------------------------------------------------- bounds
\* Largest number of rows of the fact table.
MaxRows == 2

\* ---------------------------------------------------------------- values
\* Python's None.
None == "<None>"

\* The hierarchy, most significant level first (names of lines 45-50).
Levels == <<"province", "city", "district", "sub_district">>

LevelSet == {Levels[i] : i \in 1..Len(Levels)}

\* Location names found in the tables; "A" and "a" differ only in case.
Names == {"a", "A", "b"}

\* SQL LOWER() / Python's case folding on the names of the model.
Lower(v) == IF v = "A" THEN "a" ELSE v

\* The static value a user passes with --province, --city, ...
StaticName == "A"

\* Python truthiness of an optional string argument: bool(x).
Truthy(x) == x # None /\ x # ""

\* The parsed command line: four optional column names, four optional
\* static values (argparse gives None for an option that is absent).
ArgsSet ==
    [province_col : {None, "prov"}, city_col : {None, "kota"},
     district_col : {None, "kec"}, subdistrict_col : {None, "kel"},
     province : {None, StaticName}, city : {None, StaticName},
     district : {None, StaticName}, subdistrict : {None, StaticName}]

\* The column argument of a level, as main passes them positionally.
ColArg(a, l) ==
    CASE l = "province" -> a.province_col
      [] l = "city" -> a.city_col
      [] l = "district" -> a.district_col
      [] l = "sub_district" -> a.subdistrict_col

\* The static-value argument of a level.
ValArg(a, l) ==
    CASE l = "province" -> a.province
      [] l = "city" -> a.city
      [] l = "district" -> a.district
      [] l = "sub_district" -> a.subdistrict

has_column(a, l) == Truthy(ColArg(a, l))

has_value(a, l) == Truthy(ValArg(a, l))

\* ------------------------------------------------------ validate_hierarchy
\* The mutant checks only the level directly above a column level.
validate_hierarchy_immediate(a) ==
    /\ \E l \in LevelSet : has_column(a, l) \/ has_value(a, l)
    /\ \A i \in 2..Len(Levels) :
          has_column(a, Levels[i]) =>
             (has_column(a, Levels[i-1]) \/ has_value(a, Levels[i-1]))

validate_hierarchy(a) ==
    IF ~ \E l \in LevelSet : has_column(a, l) \/ has_value(a, l)
    THEN FALSE
    ELSE IF /\ has_column(a, "province")
            /\ ~ \/ has_column(a, "city") \/ has_column(a, "district")
                 \/ has_column(a, "sub_district")
                 \/ \E l \in LevelSet : has_value(a, l)
    THEN TRUE
    ELSE IF /\ has_value(a, "province") /\ has_column(a, "city")
            /\ ~ \/ has_column(a, "province") \/ has_column(a, "district")
                 \/ has_column(a, "sub_district")
                 \/ has_value(a, "city") \/ has_value(a, "district")
                 \/ has_value(a, "sub_district")
    THEN TRUE
    ELSE \A i \in 2..Len(Levels) :
            has_column(a, Levels[i]) =>
               \A j \in 1..(i-1) :
                  has_column(a, Levels[j]) \/ has_value(a, Levels[j])

\* ------------------------------------------------ fetch_distinct_locations
\* available_columns: the levels given as columns, in hierarchy order.
available_columns(a) == SelectSeq(Levels, LAMBDA l : has_column(a, l))

SeqSet(s) == {s[i] : i \in 1..Len(s)}

\* The mutant applies a static value whenever one is given.
StaticApplies_always(a, l) == has_value(a, l)

StaticApplies(a, l) == has_value(a, l) /\ l \notin SeqSet(available_columns(a))

\* The mutant lists the active levels in hierarchy order.
fetch_columns_hierarchy(a) ==
    SelectSeq(Levels, LAMBDA l : has_column(a, l) \/ StaticApplies(a, l))

\* The returned level list: the column levels, then the appended static ones.
fetch_columns(a) ==
    available_columns(a) \o SelectSeq(Levels, LAMBDA l : StaticApplies(a, l))

\* SELECT DISTINCT <columns> ... WHERE <each column> IS NOT NULL, rows in
\* order of first occurrence.
RECURSIVE SelectDistinct(_, _, _)
SelectDistinct(table, cols, seen) ==
    IF table = <<>> THEN <<>>
    ELSE LET r == [l \in cols |-> Head(table)[l]]
         IN  IF (\E l \in cols : r[l] = None) \/ r \in seen
             THEN SelectDistinct(Tail(table), cols, seen)
             ELSE <<r>> \o SelectDistinct(Tail(table), cols, seen \cup {r})

\* The mutant leaves the static levels unset.
AddStatic_skip(a, r, base) ==
    [l \in (base \cup {x \in LevelSet : StaticApplies(a, x)}) |->
        IF l \in DOMAIN r THEN r[l] ELSE None]

\* df["level"] = value for every static level without a column.
AddStatic(a, r, base) ==
    LET st == {l \in LevelSet : StaticApplies(a, l)}
    IN  [l \in (base \cup st) |->
            IF l \in st THEN ValArg(a, l) ELSE r[l]]

\* The DataFrame returned for a fact table: one row of None when no column
\* is selected, else the distinct non-null rows; static values added.
fetch_df(a, table) ==
    LET cols == SeqSet(available_columns(a))
        rows == IF cols = {}
                THEN << [l \in LevelSet |-> None] >>
                ELSE SelectDistinct(table, cols, {})
        base == IF cols = {} THEN LevelSet ELSE cols
    IN  [i \in 1..Len(rows) |-> AddStatic(a, rows[i], base)]

\* ----------------------------------------------------- lookup_location_ids
column_mapping(l) ==
    CASE l = "province" -> "provinsi"
      [] l = "city" -> "kota_kabupaten"
      [] l = "district" -> "kecamatan"
      [] l = "sub_district" -> "kelurahan_desa"

\* select_columns: objectid, then the master column of each listed level.
select_columns(cols) ==
    <<"objectid">> \o [i \in 1..Len(cols) |-> column_mapping(cols[i])]

\* The levels a row is filtered on: listed, present in the row, not null.
conditions(row, cols) ==
    {c \in SeqSet(cols) : c \in DOMAIN row /\ row[c] # None}

\* The master rows the WHERE clause of the lookup selects.
Matches(mtable, row, cols) ==
    {m \in mtable :
        \A c \in conditions(row, cols) :
            Lower(m[column_mapping(c)]) = Lower(row[c])}

\* cursor.fetchone() on a selected master row: the projected tuple.
fetchone(m, cols) ==
    LET sc == select_columns(cols) IN [i \in 1..Len(sc) |-> m[sc[i]]]

\* row.get(col)
Get(row, k) == IF k \in DOMAIN row THEN row[k] ELSE None

\* result_dict, lines 166-171: result[0] is result[1] here, and position i
\* of enumerate(columns, 1) reads result[i], which is result[i+1] here.
result_dict(result, row, cols) ==
    [k \in {"location_id"} \cup SeqSet(cols) |->
        IF k = "location_id" THEN result[1]
        ELSE LET i == CHOOSE j \in 1..Len(cols) :
                         /\ cols[j] = k
                         /\ \A h \in 1..Len(cols) : cols[h] = k => h <= j
             IN  IF i < Len(result) THEN result[i + 1] ELSE Get(row, k)]

\* ------------------------------------------------------ insert_into_geo_ref
\* The name of the geo_ref column of a level: the user's column name, else
\* the default name of the level.
GeoCol(a, l) == IF has_column(a, l) THEN ColArg(a, l) ELSE l

\* The levels that get a geo_ref column, in the order of lines 239-253.
geo_levels(a) == SelectSeq(Levels, LAMBDA l : has_column(a, l) \/ has_value(a, l))

insert_columns(a) ==
    <<"location_id">> \o [i \in 1..Len(geo_levels(a)) |-> GeoCol(a, geo_levels(a)[i])]

\* values of one location, lines 264-277.
insert_values(a, loc) ==
    <<loc["location_id"]>> \o
    [i \in 1..Len(geo_levels(a)) |->
        IF has_column(a, geo_levels(a)[i])
        THEN Get(loc, geo_levels(a)[i])
        ELSE ValArg(a, geo_levels(a)[i])]

\* The row INSERT INTO geo_ref (insert_columns) VALUES (values) adds.
geo_row(a, loc) ==
    LET ic == insert_columns(a)
        vs == insert_values(a, loc)
    IN  [n \in SeqSet(ic) |-> vs[CHOOSE i \in 1..Len(ic) : ic[i] = n]]

\* The mutant commits what was executed instead of discarding it.
rollback_keeps(committed, pend) == committed \o pend

\* conn.rollback(): the committed rows after the open transaction is dropped.
rollback(committed, pend) == committed

\* The mutant forgets to commit.
commit_missing(committed, pend) == committed

\* conn.commit(): the rows of the open transaction become visible.
commit(committed, pend) == committed \o pend

\* ---------------------------------------------------------- the databases
\* A fact-table row holding the same name at every level.
Uniform(v) == [l \in LevelSet |-> v]

\* Rows a fact table may hold: one name at every level in either case,
\* another name, and a row whose levels below the province are NULL.
FactRows ==
    {Uniform("a"), Uniform("A"), Uniform("b"),
     [l \in LevelSet |-> IF l = "province" THEN "a" ELSE None]}

RECURSIVE SeqsUpTo(_, _)
SeqsUpTo(S, n) ==
    IF n = 0 THEN {<<>>}
    ELSE LET shorter == SeqsUpTo(S, n - 1)
         IN  shorter \cup {Append(q, x) : q \in shorter, x \in S}

FactTables == SeqsUpTo(FactRows, MaxRows)

MasterRow(id, v) ==
    [objectid |-> id, provinsi |-> v, kota_kabupaten |-> v,
     kecamatan |-> v, kelurahan_desa |-> v]

\* indonesia_boundaries is empty, holds one row, or holds two rows that
\* differ in case only, so that one tuple can select both.
MasterTables ==
    {{}, {MasterRow("m1", "a")}, {MasterRow("m1", "a"), MasterRow("m2", "A")}}

\* How cursor.execute may fail: before the statement reaches the server
\* ("client"), or at the server ("server"), which leaves the connection's
\* transaction aborted: neither connect_to_db nor the handler of lines
\* 176-178 sets autocommit or rolls back.
QueryFaults == {"none", "client", "server"}

\* ------------------------------------------------------------------ state
VARIABLES
    args,          \* the parsed command line
    pc,            \* position of main
    exit_code,     \* None while running, then the process's exit code
    fatal,         \* the phase whose error ended the run, else None
    validated,     \* what validate_hierarchy returned ("pending" before)
    conn,          \* fact/destination connection: "none", "open", "closed"
    neon_db_conn,  \* master connection: "none", "open", "closed"
    queries,       \* statements issued on either connection
    fact_table,    \* the rows of the fact table
    master,        \* the rows of indonesia_boundaries
    df,            \* locations_df
    columns,       \* the level list fetch_distinct_locations returned
    idx,           \* position of the loop of line 139
    tx_failed,     \* the master connection's transaction is aborted
    outcome,       \* per tuple of df, the branch its iteration took
    results,       \* the list lookup_location_ids builds
    table_created, \* geo_ref was created by this run
    geo_ref,       \* rows of geo_ref committed by this run
    pending,       \* rows inserted in the open transaction
    ins            \* position of the loop of line 263

vars == <<args, pc, exit_code, fatal, validated, conn, neon_db_conn, queries,
          fact_table, master, df, columns, idx, tx_failed, outcome, results,
          table_created, geo_ref, pending, ins>>

dbvars == <<fact_table, master, df, columns, idx, tx_failed, outcome, results,
            table_created, geo_ref, pending, ins>>

Init ==
    /\ args \in ArgsSet
    /\ pc = "validate"
    /\ exit_code = None
    /\ fatal = None
    /\ validated = "pending"
    /\ conn = "none"
    /\ neon_db_conn = "none"
    /\ queries = 0
    /\ fact_table = <<>>
    /\ master = {}
    /\ df = <<>>
    /\ columns = <<>>
    /\ idx = 1
    /\ tx_failed = FALSE
    /\ outcome = <<>>
    /\ results = <<>>
    /\ table_created = FALSE
    /\ geo_ref = <<>>
    /\ pending = <<>>
    /\ ins = 1

\* sys.exit(1) after the error of a phase.
Die(phase) ==
    /\ pc' = "exit"
    /\ exit_code' = 1
    /\ fatal' = phase

\* ------------------------------------------------------------------- main
\* The mutant goes on to connect whatever the validation said.
AfterValidate_ignore(ok) == "connect"

\* Lines 379-380: main stops when validate_hierarchy returns False.
AfterValidate(ok) == IF ok THEN "connect" ELSE "exit"

Validate ==
    /\ pc = "validate"
    /\ LET ok == validate_hierarchy(args)
       IN  /\ validated' = (IF ok THEN "ok" ELSE "failed")
           /\ pc' = AfterValidate(ok)
           /\ exit_code' = (IF AfterValidate(ok) = "exit" THEN 1 ELSE None)
           /\ fatal' = (IF AfterValidate(ok) = "exit" THEN "validate" ELSE None)
    /\ UNCHANGED <<args, conn, neon_db_conn, queries>>
    /\ UNCHANGED dbvars

\* Lines 383-401: by URI, or by host/database/user (which must all be
\* given); connect_to_db exits when psycopg2.connect raises.
Connect ==
    /\ pc = "connect"
    /\ \E how \in {"uri", "params", "incomplete"}, up \in BOOLEAN :
          IF how = "incomplete"
          THEN /\ Die("params")
               /\ UNCHANGED conn
          ELSE IF up
          THEN /\ conn' = "open"
               /\ pc' = "fetch"
               /\ UNCHANGED <<exit_code, fatal>>
          ELSE /\ Die("connect")
               /\ UNCHANGED conn
    /\ UNCHANGED <<args, validated, neon_db_conn, queries>>
    /\ UNCHANGED dbvars

\* fetch_distinct_locations: exits without a query when nothing is given
\* (line 61), exits when pd.read_sql raises (line 114), else returns the
\* DataFrame and the level list.
Fetch ==
    /\ pc = "fetch"
    /\ IF available_columns(args) = <<>>
          /\ ~ \E l \in LevelSet : has_value(args, l)
       THEN /\ Die("fetch")
            /\ UNCHANGED <<queries, fact_table, df, columns>>
       ELSE /\ queries' = queries + 1
            /\ \E ok \in BOOLEAN :
                  IF ok
                  THEN \E t \in FactTables :
                          /\ fact_table' = t
                          /\ df' = fetch_df(args, t)
                          /\ columns' = fetch_columns(args)
                          /\ pc' = "connect_master"
                          /\ UNCHANGED <<exit_code, fatal>>
                  ELSE /\ Die("fetch")
                       /\ UNCHANGED <<fact_table, df, columns>>
    /\ UNCHANGED <<args, validated, conn, neon_db_conn>>
    /\ UNCHANGED <<master, idx, tx_failed, outcome, results, table_created,
                   geo_ref, pending, ins>>

\* Line 121: the master connection; connect_to_db exits on failure.
ConnectMaster ==
    /\ pc = "connect_master"
    /\ \E up \in BOOLEAN :
          IF up
          THEN \E m \in MasterTables :
                  /\ neon_db_conn' = "open"
                  /\ master' = m
                  /\ pc' = "lookup"
                  /\ UNCHANGED <<exit_code, fatal>>
          ELSE /\ Die("connect_master")
               /\ UNCHANGED <<neon_db_conn, master>>
    /\ UNCHANGED <<args, validated, conn, queries>>
    /\ UNCHANGED <<fact_table, df, columns, idx, tx_failed, outcome, results,
                   table_created, geo_ref, pending, ins>>

\* One iteration of the loop of lines 139-178.
LookupRow ==
    /\ pc = "lookup"
    /\ idx <= Len(df)
    /\ idx' = idx + 1
    /\ LET row == df[idx] IN
       IF conditions(row, columns) = {}
       THEN /\ outcome' = Append(outcome, "skip")
            /\ UNCHANGED <<queries, tx_failed, results>>
       ELSE /\ queries' = queries + 1
            /\ IF tx_failed
               THEN /\ outcome' = Append(outcome, "error_tx")
                    /\ UNCHANGED <<tx_failed, results>>
               ELSE \E fault \in QueryFaults :
                       IF fault # "none"
                       THEN /\ outcome' = Append(outcome, "error_" \o fault)
                            /\ tx_failed' = (fault = "server")
                            /\ UNCHANGED results
                       ELSE IF Matches(master, row, columns) = {}
                       THEN /\ outcome' = Append(outcome, "miss")
                            /\ UNCHANGED <<tx_failed, results>>
                       ELSE \E m \in Matches(master, row, columns) :
                               /\ results' = Append(results,
                                      result_dict(fetchone(m, columns), row, columns))
                               /\ outcome' = Append(outcome, "hit")
                               /\ UNCHANGED tx_failed
    /\ UNCHANGED <<args, pc, exit_code, fatal, validated, conn, neon_db_conn>>
    /\ UNCHANGED <<fact_table, master, df, columns, table_created, geo_ref,
                   pending, ins>>

\* Lines 180-181: the loop is over, the master connection is closed.
LookupDone ==
    /\ pc = "lookup"
    /\ idx > Len(df)
    /\ neon_db_conn' = "closed"
    /\ pc' = "create"
    /\ UNCHANGED <<args, exit_code, fatal, validated, conn, queries>>
    /\ UNCHANGED dbvars

\* create_geo_ref_table: CREATE TABLE IF NOT EXISTS and commit, or exit.
CreateTable ==
    /\ pc = "create"
    /\ queries' = queries + 1
    /\ \E ok \in BOOLEAN :
          IF ok
          THEN /\ table_created' = TRUE
               /\ pc' = "insert"
               /\ UNCHANGED <<exit_code, fatal>>
          ELSE /\ Die("create")
               /\ UNCHANGED table_created
    /\ UNCHANGED <<args, validated, conn, neon_db_conn>>
    /\ UNCHANGED <<fact_table, master, df, columns, idx, tx_failed, outcome,
                   results, geo_ref, pending, ins>>

\* Lines 231-233: nothing to insert, insert_into_geo_ref returns.
InsertNothing ==
    /\ pc = "insert"
    /\ results = <<>>
    /\ pc' = "close"
    /\ UNCHANGED <<args, exit_code, fatal, validated, conn, neon_db_conn, queries>>
    /\ UNCHANGED dbvars

\* One iteration of the loop of lines 263-279; a failing execute goes to
\* the handler of lines 284-289.
InsertRow ==
    /\ pc = "insert"
    /\ ins <= Len(results)
    /\ queries' = queries + 1
    /\ \E ok \in BOOLEAN :
          IF ok
          THEN /\ pending' = Append(pending, geo_row(args, results[ins]))
               /\ ins' = ins + 1
               /\ UNCHANGED <<pc, exit_code, fatal, geo_ref>>
          ELSE /\ geo_ref' = rollback(geo_ref, pending)
               /\ pending' = <<>>
               /\ Die("insert")
               /\ UNCHANGED ins
    /\ UNCHANGED <<args, validated, conn, neon_db_conn>>
    /\ UNCHANGED <<fact_table, master, df, columns, idx, tx_failed, outcome,
                   results, table_created>>

\* Lines 281-283: every row was executed; commit, or the handler on failure.
InsertCommit ==
    /\ pc = "insert"
    /\ results # <<>>
    /\ ins > Len(results)
    /\ \E ok \in BOOLEAN :
          IF ok
          THEN /\ geo_ref' = commit(geo_ref, pending)
               /\ pending' = <<>>
               /\ pc' = "close"
               /\ UNCHANGED <<exit_code, fatal>>
          ELSE /\ geo_ref' = rollback(geo_ref, pending)
               /\ pending' = <<>>
               /\ Die("commit")
    /\ UNCHANGED <<args, validated, conn, neon_db_conn, queries>>
    /\ UNCHANGED <<fact_table, master, df, columns, idx, tx_failed, outcome,
                   results, table_created, ins>>

\* Lines 430-431: the connection is closed and main returns.
Close ==
    /\ pc = "close"
    /\ conn' = "closed"
    /\ pc' = "done"
    /\ exit_code' = 0
    /\ UNCHANGED <<args, fatal, validated, neon_db_conn, queries>>
    /\ UNCHANGED dbvars

Next ==
    \/ Validate
    \/ Connect
    \/ Fetch
    \/ ConnectMaster
    \/ LookupRow
    \/ LookupDone
    \/ CreateTable
    \/ InsertNothing
    \/ InsertRow
    \/ InsertCommit
    \/ Close

Spec == Init /\ [][Next]_vars

\* ------------------------------------------------------------- properties
\* A level is active when it has a column or a static value.
Active(l) == has_column(args, l) \/ has_value(args, l)

\* A level whose value is static: a static value and no column.
StaticOnly(l) == has_value(args, l) /\ ~ has_column(args, l)

\* fetch_distinct_locations has returned in this run.
Fetched == pc \in {"connect_master", "lookup", "create", "insert", "close", "done"}
           \/ (pc = "exit" /\ fatal \in {"connect_master", "create", "insert", "commit"})

\* fetch_distinct_locations has just returned; df, columns and fact_table
\* are assigned by no later step.
JustFetched == pc = "connect_master"

\* lookup_location_ids has just returned; results and outcome are assigned
\* by no later step.
JustResolved == pc = "create"

Terminated == pc \in {"done", "exit"}

\* The positions in df of the tuples that produced a resolved entry, in
\* order: entry k of results comes from tuple HitIdx[k].
HitIdx == SelectSeq([i \in 1..Len(outcome) |-> i], LAMBDA i : outcome[i] = "hit")

\* The positions in df of the tuples some master row matches.
Matching == {i \in 1..Len(df) : Matches(master, df[i], columns) # {}}

\* C1: validate_hierarchy returns success if and only if at least one level
\* has a column or a static value and every level that has a column has,
\* for every more-significant level, a column or a static value.
C1_ValidateIffRule ==
    (validated # "pending" /\ pc \in {"connect", "exit"}) =>
       ((validated = "ok") <=>
          /\ \E l \in LevelSet : Active(l)
          /\ \A i \in 1..Len(Levels) :
                has_column(args, Levels[i]) =>
                   \A j \in 1..(i - 1) : Active(Levels[j]))

\* C1 witness: accepted with a static province above a city column and a
\* static sub_district under an unused district.
C1_Witness ==
    /\ validated = "ok"
    /\ StaticOnly("province") /\ has_column(args, "city")
    /\ ~ Active("district") /\ StaticOnly("sub_district")

\* C2: when the insert of a row fails, no row of the batch is committed to
\* geo_ref (the rows already executed included) and the run has ended with
\* a non-zero exit code.
C2_InsertFailureRollsBack ==
    fatal = "insert" =>
       /\ geo_ref = <<>>
       /\ pending = <<>>
       /\ pc = "exit"
       /\ exit_code = 1

\* C2 witness: the insert of a later row failed after an earlier row of the
\* batch was executed.
C2_Witness == fatal = "insert" /\ ins > 1

\* C3: a tuple that misses or whose own lookup raises yields no resolved
\* entry and does not end the pass; every other tuple that has a master
\* match yields a resolved entry; the pass itself never sets an exit code.
C3_PerTupleIsolation ==
    /\ Len(results) = Len(HitIdx)
    /\ pc = "lookup" => exit_code = None
    /\ fatal # "lookup"
    /\ \A i \in 1..Len(outcome) :
          (/\ outcome[i] \notin {"error_client", "error_server"}
           /\ i \in Matching) => outcome[i] = "hit"

\* C4: when the run has terminated, no connection it opened is still open.
C4_ConnectionsClosed ==
    Terminated => (conn # "open" /\ neon_db_conn # "open")

\* C5: no connection is opened, no statement issued and no table created
\* unless validate_hierarchy has returned success; when it fails the run
\* has ended with exit code 1 and none of these has happened.
C5_ValidateBeforeIO ==
    /\ (conn # "none" \/ neon_db_conn # "none" \/ queries > 0 \/ table_created)
          => validated = "ok"
    /\ validated = "failed" =>
          /\ pc = "exit" /\ exit_code = 1
          /\ conn = "none" /\ neon_db_conn = "none"
          /\ queries = 0 /\ ~ table_created

\* C5 witness: a run ended by a failed validation.
C5_Witness == validated = "failed" /\ exit_code = 1 /\ has_column(args, "district")

\* C6: with no column at any level and a static value at one level at
\* least, the extraction on a non-empty fact table returns one tuple, which
\* holds the static value at each static level, and the level list is the
\* static levels.
C6_StaticOnlyOneTuple ==
    (/\ JustFetched
     /\ \A l \in LevelSet : ~ has_column(args, l)
     /\ fact_table # <<>>) =>
       /\ Len(df) = 1
       /\ \A l \in LevelSet : has_value(args, l) => df[1][l] = ValArg(args, l)
       /\ columns = SelectSeq(Levels, LAMBDA l : has_value(args, l))

\* C6 witness: an extraction with two static levels and no column on a
\* fact table of two rows.
C6_Witness ==
    /\ JustFetched
    /\ \A l \in LevelSet : ~ has_column(args, l)
    /\ has_value(args, "province") /\ has_value(args, "district")
    /\ Len(fact_table) = MaxRows

\* C7 (as amended): in a run that completes, geo_ref holds one row per
\* tuple whose lookup returned a master row, in the resolver's order, each
\* with the identifier of a master row matching its tuple, and no row for a
\* tuple that missed or whose lookup raised.
C7_RowsPerResolvedTuple ==
    pc = "done" =>
       /\ Len(geo_ref) = Len(HitIdx)
       /\ \A k \in 1..Len(geo_ref) :
             /\ geo_ref[k]["location_id"] = results[k]["location_id"]
             /\ \E m \in Matches(master, df[HitIdx[k]], columns) :
                   geo_ref[k]["location_id"] = m.objectid
       /\ SeqSet(HitIdx) \subseteq Matching

\* C7 witness: a completed run over two distinct tuples, the first
\* resolved and written, the second missed.
C7_Witness ==
    /\ pc = "done"
    /\ outcome = <<"hit", "miss">>
    /\ Len(geo_ref) = 1

\* C7 (as stated): in a run that completes, the number of rows written
\* equals the number of distinct tuples that have a master match.
C7_RowsPerMatchingTuple ==
    pc = "done" => Len(geo_ref) = Cardinality(Matching)

\* C8: every row written to geo_ref carries, for each active level, the
\* value of the tuple it was resolved from: the fact-table value of a
\* column level, the configured value of a static level.
C8_RowsCarryOriginalValues ==
    \A k \in 1..Len(geo_ref) :
       \A l \in LevelSet :
          Active(l) => geo_ref[k][GeoCol(args, l)] = df[HitIdx[k]][l]

\* C9 (as amended): the level list holds exactly the active levels, each
\* once: the column levels in hierarchy order, then the levels that are
\* static only in hierarchy order.
C9_ColumnsThenStatic ==
    JustFetched =>
       /\ SeqSet(columns) = {l \in LevelSet : Active(l)}
       /\ Len(columns) = Cardinality(SeqSet(columns))
       /\ columns = SelectSeq(Levels, LAMBDA l : has_column(args, l))
                    \o SelectSeq(Levels, LAMBDA l : StaticOnly(l))

\* C9 witness: an extraction with a static province and a city column.
C9_Witness == JustFetched /\ StaticOnly("province") /\ has_column(args, "city")

\* C9 (as stated): the level list is the active levels in hierarchy order.
C9_ColumnsInHierarchyOrder ==
    Fetched => columns = SelectSeq(Levels, LAMBDA l : Active(l))

\* C10: at a level given both a column and a static value the column wins:
\* every tuple holds a fact-table row's values at the column levels, a
\* resolved entry agrees with its tuple up to case at that level, and the
\* geo_ref row holds the resolved value; a static value is applied, the
\* same to every tuple, only at the levels without a column.
C10_ColumnWins ==
    /\ JustFetched =>
          \A i \in 1..Len(df) :
             /\ (\E l \in LevelSet : has_column(args, l)) =>
                   \E j \in 1..Len(fact_table) :
                      \A c \in LevelSet :
                         has_column(args, c) => df[i][c] = fact_table[j][c]
             /\ \A l \in LevelSet : StaticOnly(l) => df[i][l] = ValArg(args, l)
    /\ JustResolved =>
          \A l \in LevelSet :
             (has_column(args, l) /\ has_value(args, l)) =>
                \A k \in 1..Len(results) :
                   Lower(results[k][l]) = Lower(df[HitIdx[k]][l])
    /\ pc = "done" =>
          \A l \in LevelSet :
             (has_column(args, l) /\ has_value(args, l)) =>
                \A k \in 1..Len(geo_ref) :
                   geo_ref[k][GeoCol(args, l)] = results[k][l]

\* C10 witness: a committed row whose value at a level given both ways is
\* not the static value.
C10_Witness ==
    /\ pc = "done"
    /\ geo_ref # <<>>
    /\ \E l \in LevelSet :
          /\ has_column(args, l) /\ has_value(args, l)
          /\ geo_ref[1][GeoCol(args, l)] # ValArg(args, l)

====
